---- MODULE Spec2Model ----
(***************************************************************************)
(* Snapshot versioning engine of the Express + Supabase backend            *)
(* (src/unnamed/part_006).  The database tables are the state.  A request  *)
(* handler performs one database call per step (one step per `await`);     *)
(* each step is written as a function from the tables and the handler's    *)
(* locals to the new tables and locals.  A handler run from arrival to     *)
(* response is the iteration of its steps (Run); requests that overlap     *)
(* take their steps one at a time and interleave between database calls.   *)
(***************************************************************************)
EXTENDS Integers, Sequences, FiniteSets, TLC

VARIABLES
    repositories,   \* table repositories: rows [id, owner_id, name]
    branches,       \* table branches: rows [id, repo_id, name, head_commit_id]
    commits,        \* table commits: rows [id, repo_id, branch_id, parent_id, sha, message, time]
    file_versions,  \* table file_versions: rows [id, repo_id, filepath, content]
    commit_files,   \* table commit_files: rows [commit_id, file_version_id]
    files,          \* table files (working directory): rows [repo_id, filepath, content]
    req,            \* per client: the request in flight (handler position and locals)
    last            \* the request answered most recently, with its response

vars == <<repositories, branches, commits, file_versions, commit_files, files, req, last>>

\* the database as one value
DB == [repositories |-> repositories, branches |-> branches, commits |-> commits,
       file_versions |-> file_versions, commit_files |-> commit_files, files |-> files]

SetDB(S) ==
    /\ repositories' = S.repositories
    /\ branches' = S.branches
    /\ commits' = S.commits
    /\ file_versions' = S.file_versions
    /\ commit_files' = S.commit_files
    /\ files' = S.files

----------------------------------------------------------------------------
(* Bounds of the model and constants of the program *)

MaxCommits == 2      \* commit rows a run of Spec, SpecFault or SpecConc may create
MaxRepos == 3        \* repository rows a run of SpecInit may create
MaxChain == 52       \* commit rows a run of SpecLog may create (longer than LogCap)
LogCap == 50         \* for(let i=0; i<50; i++) in the log handler

Clients == {"c1", "c2"}
Paths == <<"a.txt", "b.txt">>
PathSet == {Paths[i] : i \in 1..Len(Paths)}

\* JavaScript values: a missing string (undefined) and a missing row or id (null)
Undefined == "<undefined>"
NoId == <<>>
NoRow == [id |-> NoId]

Falsy(s) == s \in {Undefined, ""}
\* a || b on strings
OrElse(s, d) == IF Falsy(s) THEN d ELSE s

\* uuidv4(): an identifier no row of the table holds yet.  Rows of these tables
\* are never deleted, so the size of the table numbers the next row.
Uuid(kind, n) == <<"uuid", kind, n>>
NewId(kind, table) == Uuid(kind, Cardinality(table) + 1)

\* generateSha(message + new Date().toISOString()): sha256, hex, first 7
\* characters.  The digest is a function of the concatenated string alone:
\* equal message and equal instant give equal sha.
generateSha(message, time) == <<"sha", message, time>>

\* the instant of the latest commit row; the clock never runs backwards
LastTime(S) == IF S.commits = {} THEN 0
               ELSE CHOOSE t \in {c.time : c \in S.commits} : \A c \in S.commits : c.time <= t

----------------------------------------------------------------------------
(* Queries *)

\* the lookup without .eq('owner_id', owner_id)
RepoLookup_ByName(S, owner_id, repo) ==
    LET rows == {r \in S.repositories : r.name = repo}
    IN  IF Cardinality(rows) = 1 THEN CHOOSE r \in rows : TRUE ELSE NoRow

\* .from('repositories').select('id').eq('name', repo).eq('owner_id', owner_id).single()
\* single() and maybeSingle(): the row when exactly one matches, else data = null
RepoLookup(S, owner_id, repo) ==
    LET rows == {r \in S.repositories : r.name = repo /\ r.owner_id = owner_id}
    IN  IF Cardinality(rows) = 1 THEN CHOOSE r \in rows : TRUE ELSE NoRow

\* .from('branches').select('id, head_commit_id').eq('repo_id', id).eq('name', name).single()
BranchLookup(S, repo_id, name) ==
    LET rows == {b \in S.branches : b.repo_id = repo_id /\ b.name = name}
    IN  IF Cardinality(rows) = 1 THEN CHOOSE b \in rows : TRUE ELSE NoRow

\* .from('files').select('filepath, content').eq('repo_id', id)
Tree(S, repo_id) == {[filepath |-> f.filepath, content |-> f.content] :
                        f \in {g \in S.files : g.repo_id = repo_id}}

\* .from('commit_files').select('file_versions ( filepath, content )').eq('commit_id', id)
Snapshot(S, commit_id) ==
    {[filepath |-> v.filepath, content |-> v.content] :
        v \in {w \in S.file_versions :
                 [commit_id |-> commit_id, file_version_id |-> w.id] \in S.commit_files}}

\* .from('commits').select('*').eq('id', id).single()
CommitLookup(S, id) ==
    LET rows == {c \in S.commits : c.id = id}
    IN  IF Cardinality(rows) = 1 THEN CHOOSE c \in rows : TRUE ELSE NoRow

\* the rows inserted without regard to the rows already there
Upsert_Insert(table, rows) == table \cup rows

\* upsert(rows, { onConflict: 'repo_id,filepath' }) on table files
Upsert(table, rows) ==
    {f \in table : ~\E r \in rows : r.repo_id = f.repo_id /\ r.filepath = f.filepath} \cup rows

----------------------------------------------------------------------------
(* Requests and responses *)

Idle == [op |-> "none", pc |-> "idle"]

\* what a client learns of the working tree of (owner_id, repo): none when the
\* repository does not resolve
TreeOf(S, owner_id, repo) ==
    LET repoData == RepoLookup(S, owner_id, repo)
    IN  IF repoData = NoRow THEN {} ELSE Tree(S, repoData.id)

NoCommit == [commitId |-> NoId]

\* a request as it arrives: W is the working tree a commit or a checkout finds,
\* faulted the database calls of the request that have returned an error
NewRequest(S, op, args, pc) ==
    [op |-> op, args |-> args, pc |-> pc, loc |-> [repoData |-> NoRow],
     status |-> 0, body |-> [ok |-> FALSE], faulted |-> {},
     W |-> IF op \in {"commit", "checkout"} THEN TreeOf(S, args.owner_id, args.repo) ELSE {}]

\* whether the response sent just before this one answered a successful commit on
\* the branch this request names, and if so which commit that was (and which
\* commit that one followed in the same way)
Follows(args, before) ==
    IF /\ before.op = "commit" /\ before.status = 200
       /\ "branch" \in DOMAIN args
       /\ before.args.owner_id = args.owner_id
       /\ before.args.repo = args.repo
       /\ before.args.branch = args.branch
    THEN [commitId |-> before.made.commitId, sha |-> before.body.commit, W |-> before.W,
          prior |-> before.follows.commitId,
          priorSha |-> IF before.follows = NoCommit THEN NoId ELSE before.follows.sha]
    ELSE NoCommit

\* a request as it is answered: the response, and of the handler's locals the
\* commit row it made (with the working tree at the moment the row was created)
Outcome(R, before) ==
    [op |-> R.op, args |-> R.args, status |-> R.status, body |-> R.body,
     W |-> R.W, faulted |-> R.faulted, follows |-> Follows(R.args, before),
     made |-> IF "commitId" \in DOMAIN R.loc
              THEN [commitId |-> R.loc.commitId, treeAtInsert |-> R.loc.treeAtInsert]
              ELSE NoCommit]

\* the handler goes on to its next database call
Go(S, R, pc, loc) == [db |-> S, rq |-> [R EXCEPT !.pc = pc, !.loc = loc]]

\* res.status(status).json(body): the handler ends
Reply(S, R, status, body) ==
    [db |-> S, rq |-> [R EXCEPT !.pc = "done", !.status = status, !.body = body]]

NoResponse == [op |-> "none", args |-> [owner_id |-> Undefined], status |-> 0,
               follows |-> NoCommit, made |-> NoCommit]

Init ==
    /\ repositories = {}
    /\ branches = {}
    /\ commits = {}
    /\ file_versions = {}
    /\ commit_files = {}
    /\ files = {}
    /\ req = [c \in Clients |-> Idle]
    /\ last = NoResponse

----------------------------------------------------------------------------
(* 1. POST /api/repos/:owner/:repo/init *)

\* if (!owner_id) return res.status(400)
InitArrive(S, R) ==
    IF Falsy(R.args.owner_id)
    THEN Reply(S, R, 400, [error |-> "owner_id required"])
    ELSE Go(S, R, "init_select", R.loc)

\* the insert made without looking at the repository found
InitSelect_Always(S, R) == Go(S, R, "init_repo", R.loc)

InitSelect(S, R) ==
    LET existing == RepoLookup(S, R.args.owner_id, R.args.repo)
    IN  IF existing # NoRow
        THEN Reply(S, R, 200, [ok |-> TRUE, initialized |-> FALSE])
        ELSE Go(S, R, "init_repo", R.loc)

InitInsertRepo(S, R, fail) ==
    IF fail
    THEN Reply(S, R, 500, [ok |-> FALSE])
    ELSE LET newRepo == [id |-> NewId("repo", S.repositories),
                         owner_id |-> R.args.owner_id, name |-> R.args.repo]
         IN  Go([S EXCEPT !.repositories = @ \cup {newRepo}], R, "init_branch",
                [repoData |-> newRepo])

\* the result of the insert is not looked at
InitInsertBranch(S, R, fail) ==
    LET main == [id |-> NewId("branch", S.branches), repo_id |-> R.loc.repoData.id,
                 name |-> "main", head_commit_id |-> NoId]
    IN  Reply(IF fail THEN S ELSE [S EXCEPT !.branches = @ \cup {main}], R,
              200, [ok |-> TRUE, initialized |-> TRUE])

----------------------------------------------------------------------------
(* 2. GET /api/repos/:owner/:repo/file *)

ReadRepo(S, R) ==
    LET repoData == RepoLookup(S, R.args.owner_id, R.args.repo)
    IN  IF repoData = NoRow
        THEN Reply(S, R, 404, [error |-> "Repo not found"])
        ELSE Go(S, R, "rf_file", [repoData |-> repoData])

\* .from('files').select('content').eq('repo_id', ...).eq('filepath', ...).maybeSingle():
\* the row when there is exactly one, null otherwise and when the select fails
FileLookup(S, repo_id, filepath) ==
    LET rows == {f \in S.files : f.repo_id = repo_id /\ f.filepath = filepath}
    IN  IF Cardinality(rows) = 1 THEN CHOOSE f \in rows : TRUE ELSE NoRow

\* res.json({ ok: true, filepath, content: file.content || '' })
ReadFile(S, R, fail) ==
    LET file == IF fail THEN NoRow ELSE FileLookup(S, R.loc.repoData.id, R.args.filepath)
    IN  IF file = NoRow
        THEN Reply(S, R, 404, [error |-> "File not found"])
        ELSE Reply(S, R, 200, [ok |-> TRUE, filepath |-> R.args.filepath,
                               content |-> OrElse(file.content, "")])

----------------------------------------------------------------------------
(* 3. POST /api/repos/:owner/:repo/file and 4. DELETE /api/repos/:owner/:repo/file *)

WriteRepo(S, R) ==
    LET repoData == RepoLookup(S, R.args.owner_id, R.args.repo)
    IN  IF repoData = NoRow
        THEN Reply(S, R, 404, [error |-> "Repo not found"])
        ELSE Go(S, R, "wf_upsert", [repoData |-> repoData])

WriteUpsert(S, R, fail) ==
    IF fail
    THEN Reply(S, R, 500, [ok |-> FALSE])
    ELSE Reply([S EXCEPT !.files = Upsert(@, {[repo_id |-> R.loc.repoData.id,
                                              filepath |-> R.args.filepath,
                                              content |-> OrElse(R.args.content, "")]})],
               R, 200, [ok |-> TRUE, filepath |-> R.args.filepath])

DeleteRepo(S, R) ==
    LET repoData == RepoLookup(S, R.args.owner_id, R.args.repo)
    IN  IF repoData = NoRow
        THEN Reply(S, R, 404, [error |-> "Repo not found"])
        ELSE Go(S, R, "df_delete", [repoData |-> repoData])

\* the result of the delete is not looked at
DeleteRow(S, R, fail) ==
    Reply(IF fail THEN S
          ELSE [S EXCEPT !.files = {f \in @ : ~(f.repo_id = R.loc.repoData.id
                                                /\ f.filepath = R.args.filepath)}],
          R, 200, [ok |-> TRUE])

----------------------------------------------------------------------------
(* 5. GET /api/repos/:owner/:repo/tree *)

TreeRepo(S, R) ==
    LET repoData == RepoLookup(S, R.args.owner_id, R.args.repo)
    IN  IF repoData = NoRow
        THEN Reply(S, R, 404, [error |-> "Repo not found"])
        ELSE Go(S, R, "tr_files", [repoData |-> repoData])

\* (files || []).map(f => ({ type: 'file', path: f.filepath }))
TreeListing(rows) == {[type |-> "file", path |-> f.filepath] : f \in rows}

\* a failed select gives data = null, listed as no file
TreeFiles(S, R, fail) ==
    Reply(S, R, 200, [ok |-> TRUE,
                      tree |-> TreeListing(IF fail THEN {} ELSE Tree(S, R.loc.repoData.id))])

----------------------------------------------------------------------------
(* 6. POST /api/repos/:owner/:repo/commit *)

CommitRepo(S, R) ==
    LET repoData == RepoLookup(S, R.args.owner_id, R.args.repo)
    IN  IF repoData = NoRow
        THEN Reply(S, R, 404, [error |-> "Repo not found"])
        ELSE Go(S, R, "c_branch", [repoData |-> repoData])

\* a branch that is not found replaced by the default branch
CommitBranch_Fallback(S, R) ==
    LET named == BranchLookup(S, R.loc.repoData.id, R.args.branch)
        branchData == IF named = NoRow THEN BranchLookup(S, R.loc.repoData.id, "main")
                      ELSE named
    IN  IF branchData = NoRow
        THEN Reply(S, R, 404, [error |-> "Branch not found"])
        ELSE Go(S, R, "c_insert", [repoData |-> R.loc.repoData, branchData |-> branchData])

CommitBranch(S, R) ==
    LET branchData == BranchLookup(S, R.loc.repoData.id, R.args.branch)
    IN  IF branchData = NoRow
        THEN Reply(S, R, 404, [error |-> "Branch not found"])
        ELSE Go(S, R, "c_insert", [repoData |-> R.loc.repoData, branchData |-> branchData])

\* the commit row with an id that is the same for every request
CommitRow_SameId(S, R, tick) ==
    [id |-> Uuid("commit", 1),
     repo_id |-> R.loc.repoData.id,
     branch_id |-> R.loc.branchData.id,
     parent_id |-> R.loc.branchData.head_commit_id,
     sha |-> generateSha(R.args.message, LastTime(S) + tick),
     message |-> OrElse(R.args.message, "Update"),
     time |-> LastTime(S) + tick]

\* the commit row that is its own parent
CommitRow_SelfParent(S, R, tick) ==
    [id |-> NewId("commit", S.commits),
     repo_id |-> R.loc.repoData.id,
     branch_id |-> R.loc.branchData.id,
     parent_id |-> NewId("commit", S.commits),
     sha |-> generateSha(R.args.message, LastTime(S) + tick),
     message |-> OrElse(R.args.message, "Update"),
     time |-> LastTime(S) + tick]

\* the commit row with the head that was read left out
CommitRow_NoParent(S, R, tick) ==
    [id |-> NewId("commit", S.commits),
     repo_id |-> R.loc.repoData.id,
     branch_id |-> R.loc.branchData.id,
     parent_id |-> NoId,
     sha |-> generateSha(R.args.message, LastTime(S) + tick),
     message |-> OrElse(R.args.message, "Update"),
     time |-> LastTime(S) + tick]

\* the commit row the handler inserts; `tick` is the time that has passed since
\* the latest commit row was made
CommitRow(S, R, tick) ==
    [id |-> NewId("commit", S.commits),
     repo_id |-> R.loc.repoData.id,
     branch_id |-> R.loc.branchData.id,
     parent_id |-> R.loc.branchData.head_commit_id,
     sha |-> generateSha(R.args.message, LastTime(S) + tick),
     message |-> OrElse(R.args.message, "Update"),
     time |-> LastTime(S) + tick]

\* treeAtInsert is not a local of the handler: it records the working tree at
\* the moment the commit row is created
CommitInsert(S, R, tick, fail) ==
    IF fail
    THEN Reply(S, R, 500, [ok |-> FALSE])
    ELSE LET row == CommitRow(S, R, tick)
         IN  Go([S EXCEPT !.commits = @ \cup {row}], R, "c_files",
                [repoData |-> R.loc.repoData, branchData |-> R.loc.branchData,
                 commitId |-> row.id, sha |-> row.sha,
                 treeAtInsert |-> Tree(S, R.loc.repoData.id)])

\* a commit of no file refused
CommitFiles_RejectEmpty(S, R, fail) ==
    LET currentFiles == IF fail THEN {} ELSE Tree(S, R.loc.repoData.id)
    IN  IF currentFiles # {}
        THEN Go(S, R, "c_versions", R.loc @@ [currentFiles |-> currentFiles])
        ELSE Reply(S, R, 400, [error |-> "nothing to commit"])

\* const { data: currentFiles } = select from files; a failed select gives null
CommitFiles(S, R, fail) ==
    LET currentFiles == IF fail THEN {} ELSE Tree(S, R.loc.repoData.id)
    IN  Go(S, R, IF currentFiles # {} THEN "c_versions" ELSE "c_head",
           R.loc @@ [currentFiles |-> currentFiles])

PathIndex(p) == CHOOSE i \in 1..Len(Paths) : Paths[i] = p
\* position of a row in the list the select returned (rows taken in path order)
Rank(rows, f) == Cardinality({g \in rows : PathIndex(g.filepath) <= PathIndex(f.filepath)})

\* currentFiles.map(f => ({ id: uuidv4(), repo_id, filepath, content }))
VersionInserts(S, R) ==
    {[id |-> Uuid("version", Cardinality(S.file_versions) + Rank(R.loc.currentFiles, f)),
      repo_id |-> R.loc.repoData.id,
      filepath |-> f.filepath,
      content |-> f.content] : f \in R.loc.currentFiles}

\* the versions written over the earlier versions of the same paths
CommitVersions_Upsert(S, R, fail) ==
    IF fail
    THEN Reply(S, R, 500, [ok |-> FALSE])
    ELSE LET versionInserts == VersionInserts(S, R)
             kept == {v \in S.file_versions :
                        ~\E w \in versionInserts :
                            w.repo_id = v.repo_id /\ w.filepath = v.filepath}
         IN  Go([S EXCEPT !.file_versions = kept \cup versionInserts], R, "c_links",
                R.loc @@ [insertedVersions |-> {v.id : v \in versionInserts}])

CommitVersions(S, R, fail) ==
    IF fail
    THEN Reply(S, R, 500, [ok |-> FALSE])
    ELSE LET versionInserts == VersionInserts(S, R)
         IN  Go([S EXCEPT !.file_versions = @ \cup versionInserts], R, "c_links",
                R.loc @@ [insertedVersions |-> {v.id : v \in versionInserts}])

\* insertedVersions.map(v => ({ commit_id: commitId, file_version_id: v.id }))
LinkInserts(R) ==
    {[commit_id |-> R.loc.commitId, file_version_id |-> v] : v \in R.loc.insertedVersions}

CommitLinks(S, R, fail) ==
    IF fail
    THEN Reply(S, R, 500, [ok |-> FALSE])
    ELSE Go([S EXCEPT !.commit_files = @ \cup LinkInserts(R)], R, "c_head", R.loc)

\* the update made only while the head is still the one that was read
HeadUpdate_IfUnmoved(S, R) ==
    {IF b.id = R.loc.branchData.id /\ b.head_commit_id = R.loc.branchData.head_commit_id
     THEN [b EXCEPT !.head_commit_id = R.loc.commitId] ELSE b : b \in S.branches}

\* the update without .eq('id', branchData.id): every branch of the repository moves
HeadUpdate_All(S, R) ==
    {IF b.repo_id = R.loc.repoData.id THEN [b EXCEPT !.head_commit_id = R.loc.commitId] ELSE b :
        b \in S.branches}

\* the update of the head left out
HeadUpdate_Skip(S, R) == S.branches

\* the head set to the sha of the commit instead of its id
HeadUpdate_Sha(S, R) ==
    {IF b.id = R.loc.branchData.id THEN [b EXCEPT !.head_commit_id = R.loc.sha] ELSE b :
        b \in S.branches}

\* .from('branches').update({ head_commit_id: commitId }).eq('id', branchData.id)
HeadUpdate(S, R) ==
    {IF b.id = R.loc.branchData.id THEN [b EXCEPT !.head_commit_id = R.loc.commitId] ELSE b :
        b \in S.branches}

\* the working files of the repository cleared once they are committed
CommitHead_ClearTree(S, R, fail) ==
    Reply(IF fail THEN S
          ELSE [S EXCEPT !.branches = HeadUpdate(S, R),
                         !.files = {f \in @ : f.repo_id # R.loc.repoData.id}], R,
          200, [ok |-> TRUE, commit |-> R.loc.sha])

\* the result of the update is not looked at; res.json({ ok: true, commit: sha })
CommitHead(S, R, fail) ==
    Reply(IF fail THEN S ELSE [S EXCEPT !.branches = HeadUpdate(S, R)], R,
          200, [ok |-> TRUE, commit |-> R.loc.sha])

----------------------------------------------------------------------------
(* 7. POST /api/repos/:owner/:repo/checkout *)

CheckoutRepo(S, R) ==
    LET repoData == RepoLookup(S, R.args.owner_id, R.args.repo)
    IN  IF repoData = NoRow
        THEN Reply(S, R, 404, [error |-> "Repo not found"])
        ELSE Go(S, R, "co_branch", [repoData |-> repoData])

\* the wipe made before the branch is looked up
CheckoutBranch_WipeFirst(S, R) ==
    LET branchData == BranchLookup(S, R.loc.repoData.id, R.args.branch)
        T == [S EXCEPT !.files = {f \in @ : f.repo_id # R.loc.repoData.id}]
    IN  IF branchData = NoRow
        THEN Reply(T, R, 404, [error |-> "Branch not found"])
        ELSE Go(S, R, "co_wipe", [repoData |-> R.loc.repoData, branchData |-> branchData])

CheckoutBranch(S, R) ==
    LET branchData == BranchLookup(S, R.loc.repoData.id, R.args.branch)
    IN  IF branchData = NoRow
        THEN Reply(S, R, 404, [error |-> "Branch not found"])
        ELSE Go(S, R, "co_wipe", [repoData |-> R.loc.repoData, branchData |-> branchData])

\* the wipe left out
Wipe_Skip(S, R) == S.files

\* .from('files').delete().eq('repo_id', repoData.id)
Wipe(S, R) == {f \in S.files : f.repo_id # R.loc.repoData.id}

\* the wipe taking the stored versions of the repository with it
CheckoutWipe_Versions(S, R, fail) ==
    LET T == IF fail THEN S
             ELSE [S EXCEPT !.files = Wipe(S, R),
                            !.file_versions = {v \in @ : v.repo_id # R.loc.repoData.id}]
    IN  IF R.loc.branchData.head_commit_id # NoId
        THEN Go(T, R, "co_snapshot", R.loc)
        ELSE Reply(T, R, 200, [ok |-> TRUE, ref |-> R.args.branch])

\* the result of the delete is not looked at
CheckoutWipe(S, R, fail) ==
    LET T == IF fail THEN S ELSE [S EXCEPT !.files = Wipe(S, R)]
    IN  IF R.loc.branchData.head_commit_id # NoId
        THEN Go(T, R, "co_snapshot", R.loc)
        ELSE Reply(T, R, 200, [ok |-> TRUE, ref |-> R.args.branch])

\* const { data: snapshotFiles } = select from commit_files; a failed select gives null
CheckoutSnapshot(S, R, fail) ==
    LET snapshotFiles == IF fail THEN {} ELSE Snapshot(S, R.loc.branchData.head_commit_id)
    IN  IF snapshotFiles # {}
        THEN Go(S, R, "co_upsert", R.loc @@ [snapshotFiles |-> snapshotFiles])
        ELSE Reply(S, R, 200, [ok |-> TRUE, ref |-> R.args.branch])

\* the restore with the content of the version left out
Restores_NoContent(R) ==
    {[repo_id |-> R.loc.repoData.id, filepath |-> sf.filepath, content |-> ""] :
        sf \in R.loc.snapshotFiles}

\* snapshotFiles.map(sf => ({ repo_id, filepath, content }))
Restores(R) ==
    {[repo_id |-> R.loc.repoData.id, filepath |-> sf.filepath, content |-> sf.content] :
        sf \in R.loc.snapshotFiles}

\* the result of the upsert is not looked at
CheckoutUpsert(S, R, fail) ==
    Reply(IF fail THEN S ELSE [S EXCEPT !.files = Upsert(@, Restores(R))], R,
          200, [ok |-> TRUE, ref |-> R.args.branch])

----------------------------------------------------------------------------
(* 8. POST /api/repos/:owner/:repo/branch *)

\* repoData is used without a null check: repoData.id throws on null
BranchRepo(S, R) ==
    LET repoData == RepoLookup(S, R.args.owner_id, R.args.repo)
    IN  IF repoData = NoRow
        THEN Reply(S, R, 500, [ok |-> FALSE])
        ELSE Go(S, R, "cb_source", [repoData |-> repoData])

BranchSource(S, R) ==
    Go(S, R, "cb_insert",
       [repoData |-> R.loc.repoData,
        sourceBranch |-> BranchLookup(S, R.loc.repoData.id, R.args.fromBranch)])

\* the branch row the handler inserts: sourceBranch?.head_commit_id || null
BranchRow(S, R) ==
    [id |-> NewId("branch", S.branches),
     repo_id |-> R.loc.repoData.id,
     name |-> R.args.branch,
     head_commit_id |-> IF R.loc.sourceBranch = NoRow THEN NoId
                        ELSE R.loc.sourceBranch.head_commit_id]

\* the insert with no unique (repo_id, name) to refuse it
BranchInsert_NoConstraint(S, R, fail) ==
    IF fail
    THEN Reply(S, R, 500, [ok |-> FALSE])
    ELSE Reply([S EXCEPT !.branches = @ \cup {BranchRow(S, R)}], R,
               200, [ok |-> TRUE, ref |-> R.args.branch])

\* error.code 23505: a branch of that name exists in the repository
BranchInsert(S, R, fail) ==
    IF \E b \in S.branches : b.repo_id = R.loc.repoData.id /\ b.name = R.args.branch
    THEN Reply(S, R, 409, [error |-> "Branch exists"])
    ELSE IF fail
    THEN Reply(S, R, 500, [ok |-> FALSE])
    ELSE Reply([S EXCEPT !.branches = @ \cup {BranchRow(S, R)}], R,
               200, [ok |-> TRUE, ref |-> R.args.branch])

----------------------------------------------------------------------------
(* 10. GET /api/repos/:owner/:repo/log *)

\* repoData is used without a null check: repoData.id throws on null
LogRepo(S, R) ==
    LET repoData == RepoLookup(S, R.args.owner_id, R.args.repo)
    IN  IF repoData = NoRow
        THEN Reply(S, R, 500, [ok |-> FALSE])
        ELSE Go(S, R, "lg_branch", [repoData |-> repoData])

LogBranch(S, R) ==
    LET branchData == BranchLookup(S, R.loc.repoData.id, R.args.branch)
    IN  IF branchData = NoRow \/ branchData.head_commit_id = NoId
        THEN Reply(S, R, 200, [ok |-> TRUE, log |-> <<>>])
        ELSE Go(S, R, "lg_walk", [repoData |-> R.loc.repoData, history |-> <<>>,
                                  currentId |-> branchData.head_commit_id, i |-> 0])

\* history.map(c => ({ oid: c.sha, parent: c.parent_id, commit: { message, ... } }))
LogEntry(commit) == [oid |-> commit.sha, parent |-> commit.parent_id, message |-> commit.message]
LogOf(history) == [k \in 1..Len(history) |-> LogEntry(history[k])]

\* the loop bound off by one
LoopAgain_OneMore(i, currentId) == i <= LogCap /\ currentId # NoId

\* the loop goes round again when i < 50 and currentId is not null
LoopAgain(i, currentId) == i < LogCap /\ currentId # NoId

\* one turn of the loop: fetch the commit, push it, move to its parent
LogWalk(S, R) ==
    LET commit == CommitLookup(S, R.loc.currentId)
        history == Append(R.loc.history, commit)
    IN  IF commit = NoRow
        THEN Reply(S, R, 200, [ok |-> TRUE, log |-> LogOf(R.loc.history)])
        ELSE IF LoopAgain(R.loc.i + 1, commit.parent_id)
        THEN Go(S, R, "lg_walk", [repoData |-> R.loc.repoData, history |-> history,
                                  currentId |-> commit.parent_id, i |-> R.loc.i + 1])
        ELSE Reply(S, R, 200, [ok |-> TRUE, log |-> LogOf(history)])

----------------------------------------------------------------------------
(* Handlers as processes *)

\* the database calls whose failure the handlers can meet
FaultPoints == {"init_repo", "init_branch", "wf_upsert", "df_delete", "c_insert", "c_files",
                "c_versions", "c_links", "c_head", "co_wipe", "co_snapshot", "co_upsert",
                "cb_insert", "tr_files"}

\* one step of a handler: the database call at R.pc and the code up to the next;
\* `failing` are the calls that return an error
Step(S, R, tick, fail) ==
        CASE R.pc = "init_arrive" -> InitArrive(S, R)
          [] R.pc = "init_select" -> InitSelect(S, R)
          [] R.pc = "init_repo" -> InitInsertRepo(S, R, fail)
          [] R.pc = "init_branch" -> InitInsertBranch(S, R, fail)
          [] R.pc = "rf_repo" -> ReadRepo(S, R)
          [] R.pc = "rf_file" -> ReadFile(S, R, fail)
          [] R.pc = "wf_repo" -> WriteRepo(S, R)
          [] R.pc = "wf_upsert" -> WriteUpsert(S, R, fail)
          [] R.pc = "df_repo" -> DeleteRepo(S, R)
          [] R.pc = "df_delete" -> DeleteRow(S, R, fail)
          [] R.pc = "c_repo" -> CommitRepo(S, R)
          [] R.pc = "c_branch" -> CommitBranch(S, R)
          [] R.pc = "c_insert" -> CommitInsert(S, R, tick, fail)
          [] R.pc = "c_files" -> CommitFiles(S, R, fail)
          [] R.pc = "c_versions" -> CommitVersions(S, R, fail)
          [] R.pc = "c_links" -> CommitLinks(S, R, fail)
          [] R.pc = "c_head" -> CommitHead(S, R, fail)
          [] R.pc = "co_repo" -> CheckoutRepo(S, R)
          [] R.pc = "co_branch" -> CheckoutBranch(S, R)
          [] R.pc = "co_wipe" -> CheckoutWipe(S, R, fail)
          [] R.pc = "co_snapshot" -> CheckoutSnapshot(S, R, fail)
          [] R.pc = "co_upsert" -> CheckoutUpsert(S, R, fail)
          [] R.pc = "cb_repo" -> BranchRepo(S, R)
          [] R.pc = "cb_source" -> BranchSource(S, R)
          [] R.pc = "cb_insert" -> BranchInsert(S, R, fail)
          [] R.pc = "lg_repo" -> LogRepo(S, R)
          [] R.pc = "lg_branch" -> LogBranch(S, R)
          [] R.pc = "lg_walk" -> LogWalk(S, R)
          [] R.pc = "tr_repo" -> TreeRepo(S, R)
          [] R.pc = "tr_files" -> TreeFiles(S, R, fail)

Exec(S, R, tick, failing) ==
    IF R.pc \in failing
    THEN Step(S, [R EXCEPT !.faulted = @ \cup {R.pc}], tick, TRUE)
    ELSE Step(S, R, tick, FALSE)

\* a handler from arrival to response, no other request taking a step meanwhile
RECURSIVE Run(_, _, _, _)
Run(S, R, tick, failing) ==
    IF R.pc = "done" THEN [db |-> S, rq |-> R]
    ELSE LET n == Exec(S, R, tick, failing) IN Run(n.db, n.rq, tick, failing)

FirstPc(op) ==
    CASE op = "init" -> "init_arrive"
      [] op = "readFile" -> "rf_repo"
      [] op = "writeFile" -> "wf_repo"
      [] op = "deleteFile" -> "df_repo"
      [] op = "commit" -> "c_repo"
      [] op = "checkout" -> "co_repo"
      [] op = "createBranch" -> "cb_repo"
      [] op = "log" -> "lg_repo"
      [] op = "listTree" -> "tr_repo"

\* commit rows that exist or that requests in flight will still insert
CommitsDue == Cardinality(commits)
              + Cardinality({d \in Clients : req[d].pc \in {"c_repo", "c_branch", "c_insert"}})

\* no request is in flight
Quiet == \A d \in Clients : req[d].pc = "idle"

\* a request is served from arrival to response, no other taking a step meanwhile
Serve(op, args, tick, failing) ==
    /\ LET n == Run(DB, NewRequest(DB, op, args, FirstPc(op)), tick, failing)
       IN  /\ SetDB(n.db)
           /\ last' = Outcome(n.rq, last)
    /\ UNCHANGED req

\* a request arrives while others may be in flight
Arrive(c, op, args) ==
    /\ req[c].pc = "idle"
    /\ req' = [req EXCEPT ![c] = NewRequest(DB, op, args, FirstPc(op))]
    /\ UNCHANGED <<repositories, branches, commits, file_versions, commit_files, files, last>>

\* the request of client c takes its next step
Advance(c, pc, tick, fail) ==
    /\ req[c].pc = pc
    /\ LET n == Exec(DB, req[c], tick, IF fail THEN {pc} ELSE {})
       IN  /\ SetDB(n.db)
           /\ IF n.rq.pc = "done"
              THEN last' = Outcome(n.rq, last) /\ req' = [req EXCEPT ![c] = Idle]
              ELSE req' = [req EXCEPT ![c] = n.rq] /\ UNCHANGED last

----------------------------------------------------------------------------
(* Requests issued one at a time, every database call succeeding *)

OwnerIds == {"u1"}
RepoNames == {"demo"}
BranchNames == {"main", "dev"}
Messages == {"first"}
\* the files written: a.txt = "hello", a.txt with no content, b.txt = "world"
Writes == {[filepath |-> Paths[1], content |-> "hello"],
           [filepath |-> Paths[1], content |-> Undefined],
           [filepath |-> Paths[2], content |-> "world"]}

InitArgs(Owners) == [owner_id : Owners \cup {Undefined}, repo : RepoNames]
WriteArgs(Owners) == {[owner_id |-> o, repo |-> r, filepath |-> w.filepath,
                        content |-> w.content] : o \in Owners, r \in RepoNames, w \in Writes}
DeleteArgs(Owners) == [owner_id : Owners, repo : RepoNames, filepath : PathSet]
CommitArgs(Owners, Msgs) == [owner_id : Owners, repo : RepoNames, branch : BranchNames,
                             message : Msgs]
CheckoutArgs(Owners) == [owner_id : Owners, repo : RepoNames, branch : BranchNames]
BranchArgs(Owners) == [owner_id : Owners, repo : RepoNames, branch : BranchNames,
                       fromBranch : BranchNames]
LogArgs(Owners) == [owner_id : Owners, repo : RepoNames, branch : BranchNames]

\* Faults: the sets of database calls that may return an error to one request
DoInit(Faults) ==
    /\ Quiet
    /\ \E a \in InitArgs(OwnerIds), failing \in Faults : Serve("init", a, 1, failing)
DoWrite(Faults) ==
    /\ Quiet
    /\ \E a \in WriteArgs(OwnerIds), failing \in Faults : Serve("writeFile", a, 1, failing)
DoDelete(Faults) ==
    /\ Quiet
    /\ \E a \in DeleteArgs(OwnerIds), failing \in Faults : Serve("deleteFile", a, 1, failing)
DoCommit(Msgs, Ticks, cap, Faults) ==
    /\ Quiet
    /\ Cardinality(commits) < cap
    /\ \E a \in CommitArgs(OwnerIds, Msgs), tick \in Ticks, failing \in Faults :
          Serve("commit", a, tick, failing)
DoCheckout(Faults) ==
    /\ Quiet
    /\ \E a \in CheckoutArgs(OwnerIds), failing \in Faults : Serve("checkout", a, 1, failing)
DoBranch(Faults) ==
    /\ Quiet
    /\ \E a \in BranchArgs(OwnerIds), failing \in Faults : Serve("createBranch", a, 1, failing)
DoLog ==
    /\ Quiet
    /\ \E a \in LogArgs(OwnerIds) : Serve("log", a, 1, {})

NoFaults == {{}}

Next ==
    \/ DoInit(NoFaults)
    \/ DoWrite(NoFaults)
    \/ DoDelete(NoFaults)
    \/ DoCommit(Messages, {1}, MaxCommits, NoFaults)
    \/ DoCheckout(NoFaults)
    \/ DoBranch(NoFaults)
    \/ DoLog

Spec == Init /\ [][Next]_vars

----------------------------------------------------------------------------
(* One long lineage: commits on one repository, one at a time, and its log *)

NextLog ==
    \/ DoInit(NoFaults)
    \/ DoCommit(Messages, {1}, MaxChain, NoFaults)
    \/ DoLog

SpecLog == Init /\ [][NextLog]_vars

----------------------------------------------------------------------------
(* Requests issued one at a time, database calls of commit failing *)

CommitFaults == SUBSET {"c_insert", "c_files", "c_versions", "c_links", "c_head"}

NextFault ==
    \/ DoInit(NoFaults)
    \/ DoWrite(NoFaults)
    \/ DoDelete(NoFaults)
    \/ DoCommit(Messages, {1}, MaxCommits, CommitFaults)
    \/ DoCheckout(NoFaults)
    \/ DoLog

SpecFault == Init /\ [][NextFault]_vars

----------------------------------------------------------------------------
(* Requests of two clients overlapping: commits on main and writes, each taking
   one database call per step *)

ConcCommitArgs == [owner_id : OwnerIds, repo : RepoNames, branch : {"main"}, message : Messages]

ConcWriteArgs == {a \in WriteArgs(OwnerIds) : a.content # Undefined}

ArriveWrite(c) ==
    /\ req[c].pc = "idle"
    /\ \E a \in ConcWriteArgs : Arrive(c, "writeFile", a)
ArriveCommit(c) ==
    /\ CommitsDue < MaxCommits
    /\ \E a \in ConcCommitArgs : Arrive(c, "commit", a)
StepWriteRepo(c) == req[c].pc = "wf_repo" /\ Advance(c, "wf_repo", 1, FALSE)
StepWriteUpsert(c) == req[c].pc = "wf_upsert" /\ Advance(c, "wf_upsert", 1, FALSE)
StepCommitRepo(c) == req[c].pc = "c_repo" /\ Advance(c, "c_repo", 1, FALSE)
StepCommitBranch(c) == req[c].pc = "c_branch" /\ Advance(c, "c_branch", 1, FALSE)
StepCommitInsert(c) == req[c].pc = "c_insert" /\ Advance(c, "c_insert", 1, FALSE)
StepCommitFiles(c) == req[c].pc = "c_files" /\ Advance(c, "c_files", 1, FALSE)
StepCommitVersions(c) == req[c].pc = "c_versions" /\ Advance(c, "c_versions", 1, FALSE)
StepCommitLinks(c) == req[c].pc = "c_links" /\ Advance(c, "c_links", 1, FALSE)
StepCommitHead(c) == req[c].pc = "c_head" /\ Advance(c, "c_head", 1, FALSE)

NextConc ==
    \/ DoInit(NoFaults)
    \/ \E c \in Clients :
          \/ ArriveWrite(c)
          \/ ArriveCommit(c)
          \/ StepWriteRepo(c)
          \/ StepWriteUpsert(c)
          \/ StepCommitRepo(c)
          \/ StepCommitBranch(c)
          \/ StepCommitInsert(c)
          \/ StepCommitFiles(c)
          \/ StepCommitVersions(c)
          \/ StepCommitLinks(c)
          \/ StepCommitHead(c)

SpecConc == Init /\ [][NextConc]_vars

----------------------------------------------------------------------------
(* Requests issued one at a time, database calls of checkout failing *)

CheckoutFaults == SUBSET {"co_wipe", "co_snapshot", "co_upsert"}

NextCheckoutFault ==
    \/ DoInit(NoFaults)
    \/ DoWrite(NoFaults)
    \/ DoCommit(Messages, {1}, MaxCommits, NoFaults)
    \/ DoCheckout(CheckoutFaults)

SpecCheckoutFault == Init /\ [][NextCheckoutFault]_vars

----------------------------------------------------------------------------
(* Checkouts of main and tree listings of two clients overlapping, each taking
   one database call per step; init, writes and commits are served in between *)

ConcCheckoutArgs == [owner_id : OwnerIds, repo : RepoNames, branch : {"main"}]
TreeArgs(Owners) == [owner_id : Owners, repo : RepoNames]

ArriveCheckout(c) ==
    /\ req[c].pc = "idle"
    /\ \E a \in ConcCheckoutArgs : Arrive(c, "checkout", a)
ArriveTree(c) ==
    /\ req[c].pc = "idle"
    /\ \E a \in TreeArgs(OwnerIds) : Arrive(c, "listTree", a)
StepCheckoutRepo(c) == req[c].pc = "co_repo" /\ Advance(c, "co_repo", 1, FALSE)
StepCheckoutBranch(c) == req[c].pc = "co_branch" /\ Advance(c, "co_branch", 1, FALSE)
StepCheckoutWipe(c) == req[c].pc = "co_wipe" /\ Advance(c, "co_wipe", 1, FALSE)
StepCheckoutSnapshot(c) == req[c].pc = "co_snapshot" /\ Advance(c, "co_snapshot", 1, FALSE)
StepCheckoutUpsert(c) == req[c].pc = "co_upsert" /\ Advance(c, "co_upsert", 1, FALSE)
StepTreeRepo(c) == req[c].pc = "tr_repo" /\ Advance(c, "tr_repo", 1, FALSE)
StepTreeFiles(c) == req[c].pc = "tr_files" /\ Advance(c, "tr_files", 1, FALSE)

NextCheckout ==
    \/ DoInit(NoFaults)
    \/ DoWrite(NoFaults)
    \/ DoCommit(Messages, {1}, MaxCommits, NoFaults)
    \/ \E c \in Clients :
          \/ ArriveCheckout(c)
          \/ ArriveTree(c)
          \/ StepCheckoutRepo(c)
          \/ StepCheckoutBranch(c)
          \/ StepCheckoutWipe(c)
          \/ StepCheckoutSnapshot(c)
          \/ StepCheckoutUpsert(c)
          \/ StepTreeRepo(c)
          \/ StepTreeFiles(c)

SpecCheckout == Init /\ [][NextCheckout]_vars

----------------------------------------------------------------------------
(* init requests of two clients overlapping, each taking one database call per
   step, the insert of the branch failing or not; writes are served in between *)

\* repository rows that exist or that init requests in flight may still insert
ReposDue == Cardinality(repositories)
            + Cardinality({d \in Clients : req[d].pc \in {"init_arrive", "init_select", "init_repo"}})

ArriveInit(c) ==
    /\ ReposDue < MaxRepos
    /\ \E a \in InitArgs(OwnerIds) : Arrive(c, "init", a)
StepInitArrive(c) == req[c].pc = "init_arrive" /\ Advance(c, "init_arrive", 1, FALSE)
StepInitSelect(c) == req[c].pc = "init_select" /\ Advance(c, "init_select", 1, FALSE)
StepInitRepo(c) == req[c].pc = "init_repo" /\ Advance(c, "init_repo", 1, FALSE)
StepInitBranch(c) ==
    /\ req[c].pc = "init_branch"
    /\ \E fail \in BOOLEAN : Advance(c, "init_branch", 1, fail)

NextInit ==
    \/ DoWrite(NoFaults)
    \/ \E c \in Clients :
          \/ ArriveInit(c)
          \/ StepInitArrive(c)
          \/ StepInitSelect(c)
          \/ StepInitRepo(c)
          \/ StepInitBranch(c)

SpecInit == Init /\ [][NextInit]_vars

----------------------------------------------------------------------------
(* Two owners, each with a repository of the same name, requests one at a time *)

TwoOwners == {"u1", "u2"}

OwnerInitArgs == [owner_id : TwoOwners, repo : RepoNames]
OwnerWriteArgs == {a \in WriteArgs(TwoOwners) : a.content # Undefined}
OwnerDeleteArgs == {a \in DeleteArgs(TwoOwners) : a.filepath = Paths[2]}
OwnerBranchArgs == [owner_id : TwoOwners, repo : RepoNames, branch : {"main"}]
OwnerCommitArgs == [owner_id : TwoOwners, repo : RepoNames, branch : {"main"},
                    message : Messages]

AsInit ==
    /\ Quiet
    /\ \E a \in OwnerInitArgs : Serve("init", a, 1, {})
AsWrite ==
    /\ Quiet
    /\ \E a \in OwnerWriteArgs : Serve("writeFile", a, 1, {})
AsCommit ==
    /\ Quiet
    /\ Cardinality(commits) < MaxCommits
    /\ \E a \in OwnerCommitArgs : Serve("commit", a, 1, {})
AsCheckout ==
    /\ Quiet
    /\ \E a \in OwnerBranchArgs : Serve("checkout", a, 1, {})
AsLog ==
    /\ Quiet
    /\ \E a \in OwnerBranchArgs : Serve("log", a, 1, {})
AsTree ==
    /\ Quiet
    /\ \E a \in TreeArgs(TwoOwners) : Serve("listTree", a, 1, {})
AsDelete ==
    /\ Quiet
    /\ \E a \in OwnerDeleteArgs : Serve("deleteFile", a, 1, {})

NextOwners ==
    \/ AsInit
    \/ AsWrite
    \/ AsCommit
    \/ AsCheckout
    \/ AsLog
    \/ AsTree
    \/ AsDelete

SpecOwners == Init /\ [][NextOwners]_vars

----------------------------------------------------------------------------
(* Heads and parents: two owners with a repository of the same name each,
   commits of the empty tree on either branch with database calls failing, and
   new branches *)

\* the insert of the commit row or the update of the head failing
RefFaults == {{}, {"c_insert"}, {"c_head"}}

AsCommitAny ==
    /\ Quiet
    /\ Cardinality(commits) < MaxCommits
    /\ \E a \in CommitArgs(TwoOwners, Messages), failing \in RefFaults :
          Serve("commit", a, 1, failing)
AsBranchAny ==
    /\ Quiet
    /\ \E a \in BranchArgs(TwoOwners) : Serve("createBranch", a, 1, {})

NextRefs ==
    \/ AsInit
    \/ AsCommitAny
    \/ AsBranchAny

SpecRefs == Init /\ [][NextRefs]_vars

----------------------------------------------------------------------------
(* The working tree: files written, read and deleted, commits and checkouts on
   main, requests served one at a time *)

ReadArgs(Owners) == [owner_id : Owners, repo : RepoNames, filepath : PathSet]

DoRead ==
    /\ Quiet
    /\ \E a \in ReadArgs(OwnerIds) : Serve("readFile", a, 1, {})

NextFile ==
    \/ DoInit(NoFaults)
    \/ DoWrite(NoFaults)
    \/ DoRead
    \/ DoDelete(NoFaults)
    \/ DoCommit(Messages, {1}, MaxCommits, NoFaults)
    \/ DoCheckout(NoFaults)

SpecFile == Init /\ [][NextFile]_vars

----------------------------------------------------------------------------
(* Properties *)

\* the head of the branch a response is about (NoId when it does not resolve)
HeadOf(S, args) ==
    LET repoData == RepoLookup(S, args.owner_id, args.repo)
        branchData == IF repoData = NoRow THEN NoRow
                      ELSE BranchLookup(S, repoData.id, args.branch)
    IN  IF branchData = NoRow THEN NoId ELSE branchData.head_commit_id

Succeeded(op) == last.op = op /\ last.status = 200

\* C1. Round trip: a successful checkout of branch B that immediately follows a
\* successful commit on B leaves the working tree equal to W, the tree the commit
\* found: the same paths with the same contents.
C1_RoundTrip ==
    (Succeeded("checkout") /\ last.follows # NoCommit)
        => TreeOf(DB, last.args.owner_id, last.args.repo) = last.follows.W

C1_Witness ==
    /\ Succeeded("checkout") /\ last.follows # NoCommit
    /\ Cardinality(last.follows.W) = 2
    /\ TreeOf(DB, last.args.owner_id, last.args.repo) = last.follows.W

\* C2. Parent chaining: a successful commit on B that immediately follows a
\* successful commit C1 on B makes a commit C2 with C2.parent = C1.id and leaves
\* B.head = C2.id; a log of B right after the two lists C2 first, then C1.
C2_ParentChaining ==
    /\ (Succeeded("commit") /\ last.follows # NoCommit)
          => /\ CommitLookup(DB, last.made.commitId).parent_id = last.follows.commitId
             /\ HeadOf(DB, last.args) = last.made.commitId
    /\ (Succeeded("log") /\ last.follows # NoCommit /\ last.follows.prior # NoId)
          => /\ Len(last.body.log) >= 2
             /\ last.body.log[1].oid = last.follows.sha
             /\ last.body.log[2].oid = last.follows.priorSha

C2_Witness ==
    /\ Succeeded("log") /\ last.follows # NoCommit /\ last.follows.prior # NoId
    /\ CommitLookup(DB, last.follows.commitId).parent_id = last.follows.prior
    /\ HeadOf(DB, last.args) = last.follows.commitId
    /\ Len(last.body.log) = 2

\* C3. Branch isolation: a branch created from B1 gets the head B1 has at that
\* moment, and a commit changes the head of no branch but the one it is made on;
\* so a branch created from B1 at C1 still has head C1 after a commit on B1.
C3_BranchIsolation ==
    [][/\ (last'.op = "commit" /\ last' # last)
            => \A b \in branches :
                 ~(/\ b.repo_id = RepoLookup(DB, last'.args.owner_id, last'.args.repo).id
                   /\ b.name = last'.args.branch) => b \in branches'
       /\ (last'.op = "createBranch" /\ last'.status = 200 /\ branches' # branches)
            => \E b \in branches' \ branches :
                 /\ b.name = last'.args.branch
                 /\ b.head_commit_id = HeadOf(DB, [last'.args EXCEPT !.branch = last'.args.fromBranch])
                 /\ branches' = branches \cup {b}]_vars

\* B2 was created from B1 when B1.head was C1; B1 has moved on to C2, B2 has not
C3_Witness ==
    /\ Succeeded("commit")
    /\ \E b1, b2 \in branches :
         /\ b1.name = last.args.branch /\ b2.name # b1.name /\ b1.repo_id = b2.repo_id
         /\ b1.head_commit_id = last.made.commitId
         /\ b2.head_commit_id # NoId
         /\ CommitLookup(DB, b1.head_commit_id).parent_id = b2.head_commit_id
         /\ CommitLookup(DB, b2.head_commit_id).branch_id = b1.id

\* C4. Empty-branch checkout: a successful checkout of a branch whose head is null
\* leaves the working tree of the repository empty, whatever it held before.
C4_EmptyBranchCheckout ==
    (Succeeded("checkout") /\ HeadOf(DB, last.args) = NoId)
        => TreeOf(DB, last.args.owner_id, last.args.repo) = {}

C4_Witness ==
    /\ Succeeded("checkout") /\ HeadOf(DB, last.args) = NoId
    /\ Cardinality(last.W) = 2
    /\ TreeOf(DB, last.args.owner_id, last.args.repo) = {}

\* the commits met by following parent pointers from commit id, newest first
RECURSIVE Lineage(_, _, _)
Lineage(S, id, n) ==
    IF id = NoId \/ n = 0 \/ CommitLookup(S, id) = NoRow THEN <<>>
    ELSE <<CommitLookup(S, id)>> \o Lineage(S, CommitLookup(S, id).parent_id, n - 1)

LineageOf(S, id) == Lineage(S, id, Cardinality(S.commits))
LineageIds(S, id) == {LineageOf(S, id)[k].id : k \in 1..Len(LineageOf(S, id))}

Min(a, b) == IF a < b THEN a ELSE b

\* C5. Depth bound: the log of a branch lists the commits of its lineage from the
\* head on, newest first; on a lineage of n commits it has n entries when n is at
\* most the cap and exactly cap (50) entries when the lineage is longer.
C5_DepthBound ==
    Succeeded("log")
        => LET lineage == LineageOf(DB, HeadOf(DB, last.args))
           IN  /\ Len(last.body.log) = Min(Len(lineage), LogCap)
               /\ \A k \in 1..Len(last.body.log) : last.body.log[k] = LogEntry(lineage[k])

C5_Witness ==
    /\ Succeeded("log")
    /\ Len(LineageOf(DB, HeadOf(DB, last.args))) > LogCap
    /\ Len(last.body.log) = LogCap
    /\ last.body.log[1].oid = CommitLookup(DB, HeadOf(DB, last.args)).sha

\* C6. Log identifiers agree with commit results: after a commit that returned K1
\* and a commit that returned K2 on one branch, a log of two entries has ids K2
\* then K1, the first entry's parent is K1 and the second entry's parent is null.
C6_LogIdsMatchCommitResults ==
    (Succeeded("log") /\ last.follows # NoCommit /\ last.follows.prior # NoId
     /\ Len(last.body.log) = 2)
        => /\ last.body.log[1].oid = last.follows.sha
           /\ last.body.log[2].oid = last.follows.priorSha
           /\ last.body.log[1].parent = last.follows.priorSha
           /\ last.body.log[2].parent = NoId

\* C7. Commit is all-or-nothing: a commit request one of whose database calls
\* fails leaves every table as it was before the request.
C7_CommitAllOrNothing ==
    [][(last'.op = "commit" /\ last'.faulted # {})
          => UNCHANGED <<repositories, branches, commits, file_versions, commit_files, files>>]_vars

\* C8. No partial visibility: in no reachable state does the commits table hold
\* a row whose request has still to insert its snapshot links.
C8_NoPartialVisibility ==
    \A k \in commits :
        ~\E c \in Clients : /\ req[c].pc \in {"c_versions", "c_links"}
                            /\ req[c].loc.commitId = k.id

\* C9. Closed-world snapshot: the (path, content) pairs linked to a commit are the
\* working files of the repository at the moment the commit row was created,
\* also when writes interleave with the commit request.
C9_ClosedWorldSnapshot ==
    Succeeded("commit") => Snapshot(DB, last.made.commitId) = last.made.treeAtInsert

\* C10. Lost update: when a commit request is answered with success right after
\* another successful commit request on the same branch and both commits have the
\* same parent (both requests read the same head), the head points to the commit
\* answered last and the other commit is reachable from no branch head.
C10_LostUpdate ==
    (/\ Succeeded("commit") /\ last.follows # NoCommit
     /\ CommitLookup(DB, last.made.commitId).parent_id
          = CommitLookup(DB, last.follows.commitId).parent_id)
        => /\ HeadOf(DB, last.args) = last.made.commitId
           /\ \A b \in branches : last.follows.commitId \notin LineageIds(DB, b.head_commit_id)

C10_Witness ==
    /\ Quiet
    /\ Succeeded("commit") /\ last.follows # NoCommit
    /\ last.made.commitId # last.follows.commitId
    /\ CommitLookup(DB, last.made.commitId).parent_id
          = CommitLookup(DB, last.follows.commitId).parent_id
    /\ CommitLookup(DB, last.made.commitId).branch_id
          = CommitLookup(DB, last.follows.commitId).branch_id
    /\ HeadOf(DB, last.args) = last.made.commitId
    /\ \A b \in branches : last.follows.commitId \notin LineageIds(DB, b.head_commit_id)

\* the branch row a request names (NoRow when repository or branch does not resolve)
BranchOf(S, args) ==
    BranchLookup(S, RepoLookup(S, args.owner_id, args.repo).id, args.branch)

\* C11. Checkout is linearized: a tree listing answered while a checkout is
\* between its wipe and its response shows the tree the checkout found or the
\* snapshot of the head it restores, never anything else.
C11_CheckoutLinearized ==
    (last.op = "listTree" /\ last.status = 200)
        => \A c \in Clients :
              (req[c].op = "checkout" /\ req[c].pc \in {"co_snapshot", "co_upsert"})
                 => last.body.tree \in
                       {TreeListing(req[c].W),
                        TreeListing(Snapshot(DB, req[c].loc.branchData.head_commit_id))}

\* C12. Checkout is all-or-nothing under failure: a checkout one of whose
\* database calls fails answers 500 Internal and leaves the working files as
\* they were.
C12_CheckoutAllOrNothing ==
    [][(last'.op = "checkout" /\ last'.faulted # {})
          => (last'.status = 500 /\ files' = files)]_vars

\* C13. init is idempotent: an init for an (owner_id, name) that already has a
\* repository answers with success and initialized = false and changes no table.
C13_InitIdempotent ==
    [][(last'.op = "init" /\ RepoLookup(DB, last'.args.owner_id, last'.args.repo) # NoRow)
          => /\ last'.status = 200
             /\ last'.body.initialized = FALSE
             /\ UNCHANGED <<repositories, branches, commits, file_versions, commit_files, files>>]_vars

C13_Witness ==
    /\ last.op = "init" /\ last.status = 200
    /\ last.body.initialized = FALSE
    /\ Cardinality(repositories) = 1
    /\ Cardinality(branches) = 2
    /\ \E b \in branches : b.head_commit_id # NoId
    /\ files # {}

\* C14. init creates the repository and its default branch atomically: in every
\* reachable state every repository has a branch named main, and after an init
\* that reports initialized = true the repository and its main branch (with a
\* null head when no commit was made) exist.
C14_InitAtomic ==
    /\ \A r \in repositories : \E b \in branches : b.repo_id = r.id /\ b.name = "main"
    /\ (last.op = "init" /\ last.status = 200 /\ last.body.initialized)
          => \E r \in repositories :
                /\ r.owner_id = last.args.owner_id /\ r.name = last.args.repo
                /\ \E b \in branches : b.repo_id = r.id /\ b.name = "main"

\* C15. Repository uniqueness: in every reachable state there is at most one
\* repository per (owner_id, name), also when init requests overlap.
C15_RepoUnique ==
    \A r1, r2 \in repositories :
        (r1.owner_id = r2.owner_id /\ r1.name = r2.name) => r1 = r2

\* C16. createBranch with a name that exists in the repository answers 409
\* Conflict and changes no table, and in every reachable state the branch names
\* of a repository are unique.
C16_BranchConflict ==
    /\ [](\A b1, b2 \in branches :
             (b1.repo_id = b2.repo_id /\ b1.name = b2.name) => b1 = b2)
    /\ [][(/\ last'.op = "createBranch"
           /\ \E b \in branches :
                 /\ b.repo_id = RepoLookup(DB, last'.args.owner_id, last'.args.repo).id
                 /\ b.name = last'.args.branch)
             => /\ last'.status = 409
                /\ UNCHANGED <<repositories, branches, commits, file_versions, commit_files, files>>]_vars

C16_Witness ==
    /\ last.op = "createBranch" /\ last.status = 409
    /\ Cardinality(branches) = 2
    /\ BranchOf(DB, last.args) # NoRow
    /\ BranchOf(DB, last.args).head_commit_id # NoId

\* C17. createBranch whose fromBranch does not exist in the repository answers
\* 404 NotFound and creates no branch (stated for a new name that is free, so
\* that no Conflict competes with the NotFound).
C17_BranchFromMissing ==
    [][(/\ last'.op = "createBranch"
        /\ RepoLookup(DB, last'.args.owner_id, last'.args.repo) # NoRow
        /\ BranchOf(DB, last'.args) = NoRow
        /\ BranchLookup(DB, RepoLookup(DB, last'.args.owner_id, last'.args.repo).id,
                        last'.args.fromBranch) = NoRow)
          => (last'.status = 404 /\ branches' = branches)]_vars

\* C18. commit on a repository or branch that does not exist answers 404
\* NotFound and changes no table: no commit, version or link row, no head.
C18_CommitNotFound ==
    [][(last'.op = "commit" /\ BranchOf(DB, last'.args) = NoRow)
          => /\ last'.status = 404
             /\ UNCHANGED <<repositories, branches, commits, file_versions, commit_files, files>>]_vars

C18_Witness ==
    /\ last.op = "commit" /\ last.status = 404
    /\ BranchOf(DB, last.args) = NoRow
    /\ RepoLookup(DB, last.args.owner_id, last.args.repo) # NoRow
    /\ commits # {} /\ files # {}

\* C19. checkout of a repository or branch that does not exist answers 404
\* NotFound and leaves the working tree (and every table) as it was.
C19_CheckoutNotFound ==
    [][(last'.op = "checkout" /\ BranchOf(DB, last'.args) = NoRow)
          => /\ last'.status = 404
             /\ UNCHANGED <<repositories, branches, commits, file_versions, commit_files, files>>]_vars

C19_Witness ==
    /\ last.op = "checkout" /\ last.status = 404
    /\ BranchOf(DB, last.args) = NoRow
    /\ Cardinality(TreeOf(DB, last.args.owner_id, last.args.repo)) = 2

\* C20. log on a repository or branch that does not exist answers 404 NotFound;
\* log on a branch whose head is null answers with success and the empty list.
C20_LogNotFound ==
    last.op = "log"
        => /\ BranchOf(DB, last.args) = NoRow => last.status = 404
           /\ (BranchOf(DB, last.args) # NoRow /\ HeadOf(DB, last.args) = NoId)
                 => (last.status = 200 /\ last.body.log = <<>>)

\* C21. Empty-tree commit: a commit on an existing branch made while the working
\* tree is empty succeeds, adds one commit row with no linked snapshot whose parent
\* is the head found, and moves the head to it; and a successful checkout of a
\* branch whose head has no linked snapshot leaves the working tree empty.
C21_EmptyTreeCommit ==
    /\ [][(/\ last'.op = "commit"
           /\ BranchOf(DB, last'.args) # NoRow
           /\ TreeOf(DB, last'.args.owner_id, last'.args.repo) = {})
             => /\ last'.status = 200
                /\ CommitLookup(DB, last'.made.commitId) = NoRow
                /\ commits' = commits \cup {CommitLookup(DB', last'.made.commitId)}
                /\ CommitLookup(DB', last'.made.commitId).parent_id = HeadOf(DB, last'.args)
                /\ Snapshot(DB', last'.made.commitId) = {}
                /\ commit_files' = commit_files /\ file_versions' = file_versions
                /\ HeadOf(DB', last'.args) = last'.made.commitId]_vars
    /\ []((/\ Succeeded("checkout")
           /\ HeadOf(DB, last.args) # NoId
           /\ Snapshot(DB, HeadOf(DB, last.args)) = {})
             => TreeOf(DB, last.args.owner_id, last.args.repo) = {})

C21_Witness ==
    /\ Succeeded("checkout")
    /\ HeadOf(DB, last.args) # NoId
    /\ Snapshot(DB, HeadOf(DB, last.args)) = {}
    /\ CommitLookup(DB, HeadOf(DB, last.args)).parent_id # NoId
    /\ last.W # {}
    /\ TreeOf(DB, last.args.owner_id, last.args.repo) = {}

\* the rows of the repositories of one owner
Owned(S, owner_id) ==
    LET repos == {r \in S.repositories : r.owner_id = owner_id}
        ids == {r.id : r \in repos}
        own == {k \in S.commits : k.repo_id \in ids}
    IN  [repositories |-> repos,
         branches |-> {b \in S.branches : b.repo_id \in ids},
         commits |-> own,
         file_versions |-> {v \in S.file_versions : v.repo_id \in ids},
         commit_files |-> {l \in S.commit_files : l.commit_id \in {k.id : k \in own}},
         files |-> {f \in S.files : f.repo_id \in ids}]

\* what a response shows of the stores: the body, less the identifier a commit
\* has just drawn (a hash of the message and the clock)
Shown(op, body) == IF op = "commit" /\ "commit" \in DOMAIN body THEN [ok |-> body.ok] ELSE body

\* the response to a request served on the rows of its owner alone
Alone(op, args) ==
    Run(Owned(DB, args.owner_id),
        NewRequest(Owned(DB, args.owner_id), op, args, FirstPc(op)), 1, {}).rq

C23_ReferentialIntegrity ==
    /\ \A b \in branches :
          b.head_commit_id # NoId
             => \E k \in commits : k.id = b.head_commit_id /\ k.repo_id = b.repo_id
    /\ \A k \in commits :
          k.parent_id # NoId
             => \E p \in commits : p.id = k.parent_id /\ p.repo_id = k.repo_id

C23_Witness ==
    /\ Cardinality(repositories) = 2
    /\ \E k \in commits : k.parent_id # NoId
    /\ \E b \in branches : b.name = "dev" /\ b.head_commit_id # NoId
    /\ \E b \in branches : b.name = "main" /\ b.head_commit_id # NoId
    /\ last.op = "createBranch" /\ last.status = 200

\* C24. Append-only history: no request (init, writeFile, deleteFile, commit,
\* checkout, createBranch, log) changes or removes a row of commits, of
\* file_versions or of commit_files that exists when it starts, and the snapshot
\* set of every existing commit is the same after the request as before it.
C24_AppendOnly ==
    [][/\ commits \subseteq commits'
       /\ file_versions \subseteq file_versions'
       /\ commit_files \subseteq commit_files'
       /\ \A k \in commits : Snapshot(DB', k.id) = Snapshot(DB, k.id)]_vars

C24_Witness ==
    /\ Succeeded("commit")
    /\ last.follows = NoCommit
    /\ \E k \in commits :
          /\ k.id = CommitLookup(DB, last.made.commitId).parent_id
          /\ Snapshot(DB, k.id) # {}
          /\ Snapshot(DB, last.made.commitId) # {}
          /\ Snapshot(DB, k.id) # Snapshot(DB, last.made.commitId)
          /\ {v.filepath : v \in Snapshot(DB, k.id)}
                \cap {v.filepath : v \in Snapshot(DB, last.made.commitId)} # {}

\* C25. checkout changes only the working tree: a checkout, whatever its
\* response, leaves repositories, branches (and so every head), commits,
\* file_versions and commit_files as they were; every branch has the same
\* lineage, empty or not, after it as before it.
C25_CheckoutFrame ==
    [][last'.op = "checkout"
          => /\ repositories' = repositories
             /\ branches' = branches
             /\ commits' = commits
             /\ file_versions' = file_versions
             /\ commit_files' = commit_files
             /\ \A b \in branches :
                    LineageOf(DB', b.head_commit_id) = LineageOf(DB, b.head_commit_id)]_vars

C25_Witness ==
    /\ Succeeded("checkout")
    /\ last.args.branch = "dev"
    /\ HeadOf(DB, last.args) # NoId
    /\ HeadOf(DB, [last.args EXCEPT !.branch = "main"])
          \notin {NoId, HeadOf(DB, last.args)}
    /\ last.W # TreeOf(DB, last.args.owner_id, last.args.repo)
    /\ TreeOf(DB, last.args.owner_id, last.args.repo) # {}

\* C26. commit is read-only on the working tree: after a commit, whether it
\* answered 200, 404 or 500, the rows of files are the ones there were before it.
C26_CommitKeepsTree ==
    [][last'.op = "commit" => files' = files]_vars

C26_Witness ==
    /\ last.op = "commit"
    /\ last.status = 500
    /\ "c_links" \in last.faulted
    /\ Cardinality(last.W) = 2
    /\ TreeOf(DB, last.args.owner_id, last.args.repo) = last.W
    /\ Cardinality(commits) = 2

\* C27. checkout is idempotent and commit is not: a checkout that comes right
\* after a checkout with the same parameters gives the same response and leaves
\* every table, the working tree included, as the first one left it; a successful
\* commit that comes right after a successful commit with the same parameters
\* makes a second commit row with another id, whose parent is the first.
C27_Repeat ==
    [][/\ (last.op = "checkout" /\ last'.op = "checkout" /\ last'.args = last.args)
          => /\ DB' = DB
             /\ last'.status = last.status
             /\ last'.body = last.body
       /\ (/\ last.op = "commit" /\ last.status = 200
           /\ last'.op = "commit" /\ last'.status = 200
           /\ last'.args = last.args)
          => /\ last'.made.commitId # last.made.commitId
             /\ Cardinality({k \in commits' :
                    k.id \in {last.made.commitId, last'.made.commitId}}) = 2
             /\ CommitLookup(DB', last'.made.commitId).parent_id = last.made.commitId
             /\ CommitLookup(DB', last.made.commitId) = CommitLookup(DB, last.made.commitId)]_vars

C27_Witness ==
    /\ Succeeded("commit")
    /\ last.follows # NoCommit
    /\ last.args.branch = "dev"
    /\ last.W = last.follows.W
    /\ Cardinality(last.W) = 2
    /\ last.made.commitId # last.follows.commitId
    /\ CommitLookup(DB, last.made.commitId).parent_id = last.follows.commitId
    /\ Snapshot(DB, last.made.commitId) = Snapshot(DB, last.follows.commitId)

\* the entries the working tree holds for one path of one repository
EntriesAt(S, args) ==
    LET repoData == RepoLookup(S, args.owner_id, args.repo)
    IN  IF repoData = NoRow THEN {}
        ELSE {f \in S.files : f.repo_id = repoData.id /\ f.filepath = args.filepath}

\* C28. Working-tree upsert, last writer wins: on an existing repository a
\* writeFile answers 200 and leaves exactly one entry for its path, holding the
\* content written (the empty string when none is given), whatever was there
\* before, and every other entry as it was; a readFile answers 200 exactly when
\* the path has an entry and then returns the content of that entry; a readFile
\* right after a writeFile of the same path returns the content written; no
\* request but writeFile, deleteFile and checkout changes an entry; and no path
\* ever has two entries.
C28_LastWriterWins ==
    /\ [][(last'.op = "writeFile" /\ RepoLookup(DB, last'.args.owner_id, last'.args.repo) # NoRow)
            => /\ last'.status = 200
               /\ EntriesAt(DB', last'.args)
                     = {[repo_id |-> RepoLookup(DB, last'.args.owner_id, last'.args.repo).id,
                         filepath |-> last'.args.filepath,
                         content |-> OrElse(last'.args.content, "")]}
               /\ files' \ EntriesAt(DB', last'.args) = files \ EntriesAt(DB, last'.args)]_vars
    /\ [][(last'.op = "readFile" /\ RepoLookup(DB, last'.args.owner_id, last'.args.repo) # NoRow)
            => /\ (last'.status = 200) = (EntriesAt(DB, last'.args) # {})
               /\ last'.status = 200
                     => EntriesAt(DB, last'.args)
                          = {[repo_id |-> RepoLookup(DB, last'.args.owner_id, last'.args.repo).id,
                              filepath |-> last'.args.filepath,
                              content |-> last'.body.content]}]_vars
    /\ [][(/\ last.op = "writeFile" /\ last.status = 200
            /\ last'.op = "readFile" /\ last'.args.owner_id = last.args.owner_id
            /\ last'.args.repo = last.args.repo /\ last'.args.filepath = last.args.filepath)
            => /\ last'.status = 200
               /\ last'.body.content = OrElse(last.args.content, "")]_vars
    /\ [][last'.op \notin {"writeFile", "deleteFile", "checkout"} => files' = files]_vars
    /\ [](\A f, g \in files : (f.repo_id = g.repo_id /\ f.filepath = g.filepath) => f = g)

C28_Witness ==
    /\ Succeeded("readFile")
    /\ last.args.filepath = Paths[1]
    /\ last.body.content = "hello"
    /\ Cardinality(TreeOf(DB, last.args.owner_id, last.args.repo)) = 2
    /\ \E k \in commits :
          [filepath |-> Paths[1], content |-> ""] \in Snapshot(DB, k.id)

\* C29. Single-parent, acyclic history: in every reachable state a commit id
\* names one row (so one parent at most), the parent of a commit is a row made
\* strictly before it, and following parent pointers from any commit, the heads
\* of the branches among them, meets no commit twice and ends at a commit with
\* null parent within as many steps as there are commits, however long the chain.
C29_AcyclicHistory ==
    /\ \A k, j \in commits : k.id = j.id => k = j
    /\ \A k \in commits :
          k.parent_id # NoId
             => \E p \in commits :
                   p.id = k.parent_id /\ p.id[3] < k.id[3] /\ p.time < k.time
    /\ \A k \in commits :
          LET chain == LineageOf(DB, k.id)
          IN  /\ Len(chain) >= 1
              /\ chain[Len(chain)].parent_id = NoId
              /\ Cardinality({chain[i].id : i \in 1..Len(chain)}) = Len(chain)
    /\ \A b \in branches :
          b.head_commit_id # NoId => CommitLookup(DB, b.head_commit_id) # NoRow

C29_Witness ==
    /\ Cardinality(commits) > LogCap
    /\ \E b \in branches :
          /\ Len(LineageOf(DB, b.head_commit_id)) = Cardinality(commits)
          /\ LineageOf(DB, b.head_commit_id)[Cardinality(commits)].parent_id = NoId
    /\ last.op = "commit"

\* C30. No orphan commits without interleaving: when requests are served one at
\* a time and no database call fails, every commit that exists is met by
\* following parent pointers from the head of at least one branch, and a request
\* never leaves with a null head a branch whose head was not null.
C30_NoOrphans ==
    /\ [](\A k \in commits :
            \E b \in branches : k.id \in LineageIds(DB, b.head_commit_id))
    /\ [][\A b \in branches :
              b.head_commit_id # NoId
                 => \E c \in branches' : c.id = b.id /\ c.head_commit_id # NoId]_vars

C30_Witness ==
    /\ Cardinality(commits) = 2
    /\ \E b, c \in branches :
          /\ b.name = "main" /\ c.name = "dev" /\ b.repo_id = c.repo_id
          /\ c.head_commit_id # NoId
          /\ CommitLookup(DB, c.head_commit_id).parent_id = b.head_commit_id
          /\ b.head_commit_id # NoId
    /\ \A k \in commits :
          \E b \in branches : k.id \in LineageIds(DB, b.head_commit_id)
    /\ Succeeded("commit")

====================================================================================
